---- MODULE Spec2Model ----
(***************************************************************************)
(* Model of Analysis/recommendation2.py: the band recommendation pipeline  *)
(* (preproc_data, filter_by_genre_overlap, calculate_similarity,           *)
(* get_complete_similar_bands, normalize_score, get_recommendations).      *)
(*                                                                         *)
(* Tables are sequences of records (row order is the frame's row order).   *)
(* Text cells are sequences of one-character strings.  Scores live on an   *)
(* integer grid 0..MaxSim; a normalized score is an exact fraction kept as *)
(* its numerator, with the column's denominator (max - min) in `denom`.    *)
(* NaN is the sentinel NaN (numbers) or NaNText (text cells).              *)
(***************************************************************************)
EXTENDS Integers, Sequences, FiniteSets, TLC

(* ------------------------------ bounds --------------------------------- *)
\* Largest number of bands in the band table (ids 1..MaxBands).
MaxBands == 12
\* Similarity / score grid 0..MaxSim.
MaxSim == 3
\* Largest number of rows of an enumerated similar-artists edge table.
MaxEdges == 2
\* Number of successive calls of get_recommendations in SpecTwice.
MaxCalls == 2
\* Largest band table of SpecTwice and SpecAgg.
SmallBands == 3

(* ------------------------- program constants --------------------------- *)
\* nlargest(10, 'Total_Score')
TopN == 10

NaN == -1
NaNText == <<"NaN">>

Min2(a, b) == IF a <= b THEN a ELSE b
Max2(a, b) == IF a >= b THEN a ELSE b

RECURSIVE SeqMin(_)
SeqMin(s) == IF Len(s) = 1 THEN s[1] ELSE Min2(s[1], SeqMin(Tail(s)))
RECURSIVE SeqMax(_)
SeqMax(s) == IF Len(s) = 1 THEN s[1] ELSE Max2(s[1], SeqMax(Tail(s)))

RECURSIVE Concat(_)
\* pd.concat / flattening of a sequence of sequences
Concat(ss) == IF ss = <<>> THEN <<>> ELSE Head(ss) \o Concat(Tail(ss))

(* --------------------------- text operations --------------------------- *)
\* str.lower()
LowerChar(c) == IF c = "A" THEN "a" ELSE c
Lower(s) == [i \in 1..Len(s) |-> LowerChar(s[i])]

RECURSIVE LStrip(_)
LStrip(s) == IF s # <<>> /\ Head(s) = " " THEN LStrip(Tail(s)) ELSE s
RECURSIVE RStrip(_)
RStrip(s) == IF s # <<>> /\ s[Len(s)] = " " THEN RStrip(SubSeq(s, 1, Len(s) - 1)) ELSE s
\* str.strip()
Strip(s) == RStrip(LStrip(s))

RECURSIVE SplitFrom(_, _)
\* str.split(','): cur is the token being read
SplitFrom(s, cur) ==
    IF s = <<>> THEN <<cur>>
    ELSE IF Head(s) = "," THEN <<cur>> \o SplitFrom(Tail(s), <<>>)
    ELSE SplitFrom(Tail(s), Append(cur, Head(s)))
Split(s) == SplitFrom(s, <<>>)

RECURSIVE Join(_)
\* ', '.join(tokens)
Join(toks) ==
    IF toks = <<>> THEN <<>>
    ELSE IF Len(toks) = 1 THEN toks[1]
    ELSE toks[1] \o <<",", " ">> \o Join(Tail(toks))

IsNonBlank(tok) == Strip(tok) # <<>>
\* lines 33-34: split on ',', strip every token, drop blank tokens, join
\* with ', '; a NaN cell stays NaN
CleanThemes(cell) ==
    IF cell = NaNText THEN NaNText
    ELSE LET toks == SelectSeq(Split(cell), IsNonBlank)
         IN Join([i \in 1..Len(toks) |-> Strip(toks[i])])

(* ------------------------------ the store ------------------------------ *)
\* Band ids in table order: odd ids ascending, then even ids descending, so
\* that row order differs from id order.
BandOrder(n) ==
    LET odd  == (n + 1) \div 2
        even == n \div 2
    IN [k \in 1..n |-> IF k <= odd THEN 2 * k - 1 ELSE 2 * (even - (k - odd)) + 2]

GenreProfiles == {1, 2, 3}
\* The 'Genre' label of band id, as the sequence of its tag words.
GenreOf(profile, id) ==
    IF profile = 1 THEN <<"death metal">>
    ELSE IF profile = 3 /\ id = 1 THEN <<>>
    ELSE IF id % 3 = 1 THEN <<"death metal">>
    ELSE IF id % 3 = 2 THEN <<"pop">>
    ELSE <<"death metal", "doom">>

ThemeProfiles == {1, 2}
\* The raw 'Themes:' cell of band id.
ThemesOf(profile, id) ==
    IF profile = 1 THEN IF id % 2 = 1 THEN <<"a">> ELSE <<"a", ",", "b">>
    ELSE IF id % 4 = 0 THEN NaNText
    ELSE IF id % 4 = 1 THEN <<"A", ",", " ", "b">>
    ELSE IF id % 4 = 2 THEN <<" ", ",">>
    ELSE <<"b", ",", ",", "A", " ">>

\* line 21: bands_df as read from BANDSFILE
LoadBands(n, profile) ==
    [k \in 1..n |-> [Band_ID |-> BandOrder(n)[k],
                     Genre   |-> GenreOf(profile, BandOrder(n)[k])]]
\* line 20: lyrics_df as read from LYRICS (one row per band, in id order)
LoadLyrics(n, profile) ==
    [k \in 1..n |-> [Band_ID |-> k, Themes |-> ThemesOf(profile, k)]]

Edge(a, b, s) == [Band_ID |-> a, Similar_Artist_ID |-> b, Score |-> s]
EdgeIds == {1, 2, 3}
EdgeScores == {1, 2}
\* Edge rows without self-edges.
EdgeRows == {e \in [Band_ID : EdgeIds, Similar_Artist_ID : EdgeIds, Score : EdgeScores] :
                e.Band_ID # e.Similar_Artist_ID}
\* line 19: the similar-artists tables enumerated for the aggregator.
EdgeTablesUpTo(m) == UNION {[1..k -> EdgeRows] : k \in 0..m}
\* line 19: the similar-artists tables the full pipeline is run against.
PipelineEdgeTables ==
    { <<>>,
      <<Edge(1, 2, 1), Edge(2, 1, 2)>>,
      <<Edge(3, 1, 2), Edge(1, 2, 1), Edge(2, 3, 2)>>,
      <<Edge(3, 2, 1), Edge(1, 3, 2)>> }

(* ---------------------------- preproc_data ----------------------------- *)
RECURSIVE ToSet(_)
ToSet(s) == IF s = <<>> THEN {} ELSE {Head(s)} \cup ToSet(Tail(s))

\* CleanGenre.process_genres (line 30): adds the 'Processed Genre' column,
\* the set of tags of the row's 'Genre' label.
process_genres(df) ==
    [k \in 1..Len(df) |-> [Band_ID         |-> df[k].Band_ID,
                           Genre           |-> df[k].Genre,
                           Processed_Genre |-> ToSet(df[k].Genre)]]

HasThemes(row) == row.Themes # NaNText /\ row.Themes # <<>>
\* lines 33-37: clean every cell, dropna, drop '', lower
PreprocLyrics(df) ==
    LET cleaned == [k \in 1..Len(df) |->
                       [Band_ID |-> df[k].Band_ID, Themes |-> CleanThemes(df[k].Themes)]]
        kept    == SelectSeq(cleaned, HasThemes)
    IN [k \in 1..Len(kept) |->
           [Band_ID |-> kept[k].Band_ID, Themes |-> Lower(kept[k].Themes)]]

\* line 40: pd.merge(bands_df, lyrics_df, how='inner', on='Band ID'); rows in
\* left order, one per matching right row.  (The left join with the
\* countries table, lines 47-52, keeps these rows.)
MergeInner(left, right) ==
    Concat([i \in 1..Len(left) |->
              LET m == SelectSeq(right, LAMBDA r : r.Band_ID = left[i].Band_ID)
              IN [j \in 1..Len(m) |->
                    [Band_ID         |-> left[i].Band_ID,
                     Genre           |-> left[i].Genre,
                     Processed_Genre |-> left[i].Processed_Genre,
                     Themes          |-> m[j].Themes]]])

(* --------------------- get_complete_similar_bands ---------------------- *)
Entry(id, s) == [Similar_Artist_ID |-> id, Score |-> s]

RECURSIVE SetToSortedSeq(_)
\* ascending sequence of a finite set of integers
SetToSortedSeq(S) ==
    IF S = {} THEN <<>>
    ELSE LET m == CHOOSE x \in S : \A y \in S : x <= y
         IN <<m>> \o SetToSortedSeq(S \ {m})

RECURSIVE InsertDesc(_, _)
\* insert e after every entry whose Score is >= e.Score (stable, descending)
InsertDesc(sorted, e) ==
    IF sorted = <<>> THEN <<e>>
    ELSE IF Head(sorted).Score >= e.Score THEN <<Head(sorted)>> \o InsertDesc(Tail(sorted), e)
    ELSE <<e>> \o sorted
RECURSIVE SortByScoreDesc(_)
\* sort_values(by='Score', ascending=False)
SortByScoreDesc(s) ==
    IF s = <<>> THEN <<>>
    ELSE InsertDesc(SortByScoreDesc(SubSeq(s, 1, Len(s) - 1)), s[Len(s)])

\* mutant: agg 'min' in place of 'max'
aggregate_similar_bands_Min(filtered_df) ==
    LET keys    == SetToSortedSeq({filtered_df[i].Similar_Artist_ID : i \in 1..Len(filtered_df)})
        grp(k)  == SelectSeq(filtered_df, LAMBDA e : e.Similar_Artist_ID = k)
        scores(k) == [i \in 1..Len(grp(k)) |-> grp(k)[i].Score]
    IN SortByScoreDesc([i \in 1..Len(keys) |-> Entry(keys[i], SeqMin(scores(keys[i])))])

\* lines 113-115: groupby('Similar Artist ID').agg({'Score': 'max'}), then
\* sort by Score descending
aggregate_similar_bands(filtered_df) ==
    LET keys    == SetToSortedSeq({filtered_df[i].Similar_Artist_ID : i \in 1..Len(filtered_df)})
        grp(k)  == SelectSeq(filtered_df, LAMBDA e : e.Similar_Artist_ID = k)
        scores(k) == [i \in 1..Len(grp(k)) |-> grp(k)[i].Score]
    IN SortByScoreDesc([i \in 1..Len(keys) |-> Entry(keys[i], SeqMax(scores(keys[i])))])

\* lines 102-111
get_complete_similar_bands(edges, id) ==
    LET filtered_similar_bands ==
            SelectSeq(edges, LAMBDA e : e.Band_ID = id \/ e.Similar_Artist_ID = id)
        bands_listing_original ==
            SelectSeq(edges, LAMBDA e : e.Similar_Artist_ID = id)
        complete_bands ==
            [i \in 1..Len(filtered_similar_bands) |->
                Entry(filtered_similar_bands[i].Similar_Artist_ID,
                      filtered_similar_bands[i].Score)]
            \o
            [i \in 1..Len(bands_listing_original) |->
                Entry(bands_listing_original[i].Band_ID, bands_listing_original[i].Score)]
    IN aggregate_similar_bands(complete_bands)

(* ------------------------- frames and columns -------------------------- *)
Frame(cols, rows) == [cols |-> cols, rows |-> rows]
\* pd.DataFrame()
EmptyDataFrame == Frame({}, <<>>)
MergedCols == {"Band ID", "Genre", "Processed Genre", "Themes:"}
HasCols(frame, cs) == cs \subseteq frame.cols
\* df.drop(columns=cs)
DropCols(frame, cs) ==
    Frame(frame.cols \ cs,
          [i \in 1..Len(frame.rows) |->
              [c \in DOMAIN frame.rows[i] \ cs |-> frame.rows[i][c]]])
\* df[c] = values
SetCol(frame, c, values) ==
    Frame(frame.cols \cup {c},
          [i \in 1..Len(frame.rows) |->
              [d \in DOMAIN frame.rows[i] \cup {c} |->
                  IF d = c THEN values[i] ELSE frame.rows[i][d]]])
Col(frame, c) == [i \in 1..Len(frame.rows) |-> frame.rows[i][c]]

\* the rows of merged_df as rows of a frame with the columns MergedCols
AsFrameRows(df) ==
    [i \in 1..Len(df) |->
        [c \in MergedCols |->
            IF c = "Band ID" THEN df[i].Band_ID
            ELSE IF c = "Genre" THEN df[i].Genre
            ELSE IF c = "Processed Genre" THEN df[i].Processed_Genre
            ELSE df[i].Themes]]

(* ----------------------- filter_by_genre_overlap ----------------------- *)
\* mutant: all() in place of any()
Overlaps_All(band_genres, genres) == \A band_genre \in band_genres : band_genre \in genres

\* line 66: any(band_genre in genres for band_genre in band_genres)
Overlaps(band_genres, genres) == \E band_genre \in band_genres : band_genre \in genres

\* lines 56-68
filter_by_genre_overlap(df, id) ==
    LET band_info == SelectSeq(df, LAMBDA r : r.Band_ID = id)
    IN IF band_info = <<>> THEN EmptyDataFrame
       ELSE LET band_genres == band_info[1].Processed_Genre
            IN Frame(MergedCols,
                     AsFrameRows(SelectSeq(df, LAMBDA r :
                                     Overlaps(band_genres, r.Processed_Genre))))

(* ------------------------ calculate_similarity ------------------------- *)
\* The words of a text cell: the tags of a 'Genre' label, the ', '-separated
\* themes of a 'Themes:' cell.
Words(column, text) ==
    IF column = "Genre" THEN ToSet(text)
    ELSE LET toks == Split(text)
         IN {Strip(toks[i]) : i \in 1..Len(toks)}

\* lines 77-92 without the randomness of the SVD: the cosine of two texts on
\* the grid 0..MaxSim, MaxSim for equal texts, 0 for texts with no common
\* word, in between by the share of common words.
TextCosine(column, x, y) ==
    LET X == Words(column, x)
        Y == Words(column, y)
    IN IF X \cup Y = {} THEN 0
       ELSE (MaxSim * Cardinality(X \cap Y)) \div Cardinality(X \cup Y)

\* line 82: TruncatedSVD(n_components) is constructed without random_state,
\* so its randomized solver is seeded afresh on every fit; seed stands for the
\* draw, and the approximation error it causes is one grid step on some rows.
Seeds == {0, 1}
SvdCosine(cos, seed, id) ==
    IF seed = 1 /\ id % 2 = 0 /\ cos > 0 THEN cos - 1 ELSE cos

SimCol(column) == IF column = "Genre" THEN "Genre_Similarity" ELSE "Themes:_Similarity"

\* lines 70-100; the frame is modified in place, so the new frame is the result
calculate_similarity(frame, id, column, seed) ==
    IF frame.rows = <<>> THEN frame
    ELSE LET band_idx == CHOOSE i \in 1..Len(frame.rows) :
                            /\ frame.rows[i]["Band ID"] = id
                            /\ \A j \in 1..(i - 1) : frame.rows[j]["Band ID"] # id
             target == frame.rows[band_idx][column]
             similarity_scores ==
                [i \in 1..Len(frame.rows) |->
                    IF i = band_idx THEN TextCosine(column, target, target)
                    ELSE SvdCosine(TextCosine(column, frame.rows[i][column], target),
                                   seed, frame.rows[i]["Band ID"])]
         IN DropCols(SetCol(frame, SimCol(column), similarity_scores), {column})

(* ----------------------------- the signals ----------------------------- *)
\* line 138: similar_bands_df.set_index('Similar Artist ID')
\*             .reindex(overlap_bands_df['Band ID'], fill_value=0)['Score']
CrowdScore(similar, id) ==
    IF \E i \in 1..Len(similar) : similar[i].Similar_Artist_ID = id
    THEN similar[CHOOSE i \in 1..Len(similar) : similar[i].Similar_Artist_ID = id].Score
    ELSE 0

GeoProfiles == {1, 2, 3}
\* Cleancountry: the proximity of the countries of bands a and b.
GeoSimilarity(profile, a, b) ==
    IF profile = 1 THEN MaxSim
    ELSE IF profile = 2 THEN (a + b) % (MaxSim + 1)
    ELSE IF a = b THEN MaxSim ELSE b % 2
\* Cleancountry.add_geographic_similarity_to_band (line 140)
add_geographic_similarity_to_band(frame, id, profile) ==
    SetCol(frame, "Country_Similarity",
           [i \in 1..Len(frame.rows) |-> GeoSimilarity(profile, id, frame.rows[i]["Band ID"])])

(* --------------------------- normalize_score --------------------------- *)
\* max - min of a column; 0 for a constant column
Spread(series) == IF series = <<>> THEN 0 ELSE SeqMax(series) - SeqMin(series)
\* lines 117-119: (series - min) / (max - min), as the numerators over the
\* denominator Spread(series); 0 / 0 is NaN
normalize_score(series) ==
    [i \in 1..Len(series) |->
        IF Spread(series) = 0 THEN NaN ELSE series[i] - SeqMin(series)]

SignalCols == {"Themes:_Similarity", "Genre_Similarity", "Similar_Band_Score", "Country_Similarity"}

Weights(g, l, s, c) ==
    [genre_weight |-> g, lyrical_weight |-> l, similar_weight |-> s, country_weight |-> c]
WeightOf(w, c) ==
    IF c = "Themes:_Similarity" THEN w.lyrical_weight
    ELSE IF c = "Similar_Band_Score" THEN w.similar_weight
    ELSE IF c = "Genre_Similarity" THEN w.genre_weight
    ELSE w.country_weight

RECURSIVE Product(_, _)
Product(f, S) ==
    IF S = {} THEN 1 ELSE LET c == CHOOSE x \in S : TRUE IN f[c] * Product(f, S \ {c})
RECURSIVE Sum(_, _)
Sum(f, S) ==
    IF S = {} THEN 0 ELSE LET c == CHOOSE x \in S : TRUE IN f[c] + Sum(f, S \ {c})

\* lines 148-153 for one row: the weighted sum of the four normalized signals,
\* as its numerator over the common denominator Product(den, SignalCols); NaN
\* as soon as one signal is NaN (also under a weight of 0)
TotalScore(row, w, den) ==
    IF \E c \in SignalCols : row[c] = NaN THEN NaN
    ELSE Sum([c \in SignalCols |->
                 WeightOf(w, c) * row[c] * (Product(den, SignalCols) \div den[c])],
             SignalCols)

(* ------------------------------ nlargest ------------------------------- *)
IsNumber(v) == v # NaN
Keyed(rows) == [i \in 1..Len(rows) |-> [Score |-> rows[i]["Total_Score"], row |-> rows[i]]]
Unkeyed(items) == [i \in 1..Len(items) |-> items[i].row]
Head_n(s, n) == SubSeq(s, 1, Min2(n, Len(s)))

\* algos.kth_smallest(-arr, k - 1): the k-th largest of the values
KthLargest(values, k) ==
    CHOOSE v \in {values[i] : i \in 1..Len(values)} :
        /\ Cardinality({i \in 1..Len(values) : values[i] > v}) < k
        /\ Cardinality({i \in 1..Len(values) : values[i] >= v}) >= k

\* mutant: rows with a NaN score are dropped instead of appended
nlargest_DropsNaN(rows, n) ==
    Head_n(Unkeyed(SortByScoreDesc(Keyed(
        SelectSeq(rows, LAMBDA r : IsNumber(r["Total_Score"]))))), n)

\* mutant: head(n) in place of nlargest(n, 'Total_Score')
nlargest_Unsorted(rows, n) == Head_n(rows, n)

\* pandas DataFrame.nlargest(n, 'Total_Score'), keep='first'
\* (SelectNSeries.compute): rows with a NaN score are set aside and appended
\* after the sorted rows; with n >= len the whole column is sorted
\* descending, otherwise only the rows not below the n-th largest value are.
nlargest(rows, n) ==
    LET dropped   == SelectSeq(rows, LAMBDA r : IsNumber(r["Total_Score"]))
        nan_index == SelectSeq(rows, LAMBDA r : ~IsNumber(r["Total_Score"]))
    IN IF n >= Len(rows)
       THEN Head_n(Unkeyed(SortByScoreDesc(Keyed(dropped))) \o nan_index, n)
       ELSE LET k  == Min2(n, Len(dropped))
                ns == IF dropped = <<>> THEN <<>>
                      ELSE LET kth_val == KthLargest(Col(Frame({}, dropped), "Total_Score"), k)
                           IN SelectSeq(dropped, LAMBDA r : r["Total_Score"] >= kth_val)
                inds == Head_n(Unkeyed(SortByScoreDesc(Keyed(ns))), k)
            IN Head_n(inds \o nan_index, n)

\* mutant: the target's row is not filtered out
ExcludeTarget_KeepsAll(rows, id) == rows

\* line 158: overlap_bands_df[overlap_bands_df["Band ID"] != band_id]
ExcludeTarget(rows, id) == SelectSeq(rows, LAMBDA r : r["Band ID"] # id)

\* lines 157-160
top_recommendations(frame, id) == nlargest(ExcludeTarget(frame.rows, id), TopN)

(* ------------------------------- state --------------------------------- *)
VARIABLES
    bands_df,            \* module global, line 21 / 30
    lyrics_df,           \* module global, line 20 / 35-37
    similar_artists_df,  \* module global, line 19
    countries,           \* the geographic data behind Cleancountry
    pc,                  \* position in get_recommendations
    band_id, weights,    \* arguments of the running call
    merged_df,           \* line 124
    similar_bands_df,    \* line 127
    overlap_bands_df,    \* lines 130-155
    denom,               \* denominators of the normalized columns
    recommended_bands,   \* line 158
    calls,               \* invocations of calculate_similarity in this call
    returned             \* the tables returned by the completed calls

vars == <<bands_df, lyrics_df, similar_artists_df, countries, pc, band_id, weights,
          merged_df, similar_bands_df, overlap_bands_df, denom, recommended_bands,
          calls, returned>>

store == <<bands_df, lyrics_df, similar_artists_df, countries>>

Targets == {1, 2, 3}
\* (genre, lyrical, similar, country); line 163 calls with
\* (0.333, 0.333, 0.333, 0.1)
WeightTuples == {Weights(3, 3, 3, 1), Weights(0, 0, 1, 0)}

NoDenom == [c \in SignalCols |-> 0]

Idle ==
    /\ pc = "idle"
    /\ band_id = 0
    /\ weights = Weights(0, 0, 0, 0)
    /\ merged_df = <<>>
    /\ similar_bands_df = <<>>
    /\ overlap_bands_df = EmptyDataFrame
    /\ denom = NoDenom
    /\ recommended_bands = <<>>
    /\ calls = 0
    /\ returned = <<>>

\* The tables as loaded at import (lines 19-21), before any call.
Init ==
    /\ \E n \in 1..MaxBands, g \in GenreProfiles, t \in ThemeProfiles :
          /\ bands_df = LoadBands(n, g)
          /\ lyrics_df = LoadLyrics(n, t)
    /\ similar_artists_df \in PipelineEdgeTables
    /\ countries \in GeoProfiles
    /\ Idle

\* lines 26-54 and 124: preproc_data reassigns both globals; the locals of the
\* new call start afresh
Preproc(id, w) ==
    /\ bands_df' = process_genres(bands_df)
    /\ lyrics_df' = PreprocLyrics(lyrics_df)
    /\ merged_df' = MergeInner(bands_df', lyrics_df')
    /\ band_id' = id
    /\ weights' = w
    /\ calls' = 0
    /\ pc' = "similar"
    /\ similar_bands_df' = <<>>
    /\ overlap_bands_df' = EmptyDataFrame
    /\ denom' = NoDenom
    /\ recommended_bands' = <<>>
    /\ UNCHANGED <<similar_artists_df, countries, returned>>

\* line 121 / 124: get_recommendations(band_id, ...) is entered
Call ==
    /\ pc = "idle"
    /\ \E id \in Targets, w \in WeightTuples : Preproc(id, w)

\* line 127
SimilarBands ==
    /\ pc = "similar"
    /\ similar_bands_df' = get_complete_similar_bands(similar_artists_df, band_id)
    /\ pc' = "filter"
    /\ UNCHANGED <<store, band_id, weights, merged_df, overlap_bands_df, denom,
                   recommended_bands, calls, returned>>

\* lines 130-131: the drop raises KeyError on a frame without the column
Filter ==
    /\ pc = "filter"
    /\ LET filtered == filter_by_genre_overlap(merged_df, band_id)
       IN IF HasCols(filtered, {"Processed Genre"})
          THEN /\ overlap_bands_df' = DropCols(filtered, {"Processed Genre"})
               /\ pc' = "genre"
          ELSE /\ overlap_bands_df' = filtered
               /\ pc' = "KeyError"
    /\ UNCHANGED <<store, band_id, weights, merged_df, similar_bands_df, denom,
                   recommended_bands, calls, returned>>

\* line 134
SimilarityGenre ==
    /\ pc = "genre"
    /\ \E seed \in Seeds :
          overlap_bands_df' = calculate_similarity(overlap_bands_df, band_id, "Genre", seed)
    /\ calls' = calls + 1
    /\ pc' = "themes"
    /\ UNCHANGED <<store, band_id, weights, merged_df, similar_bands_df, denom,
                   recommended_bands, returned>>

\* line 135
SimilarityThemes ==
    /\ pc = "themes"
    /\ \E seed \in Seeds :
          overlap_bands_df' = calculate_similarity(overlap_bands_df, band_id, "Themes:", seed)
    /\ calls' = calls + 1
    /\ pc' = "signals"
    /\ UNCHANGED <<store, band_id, weights, merged_df, similar_bands_df, denom,
                   recommended_bands, returned>>

\* lines 138-140
Signals ==
    /\ pc = "signals"
    /\ LET crowd == [i \in 1..Len(overlap_bands_df.rows) |->
                        CrowdScore(similar_bands_df, overlap_bands_df.rows[i]["Band ID"])]
       IN overlap_bands_df' =
              add_geographic_similarity_to_band(
                  SetCol(overlap_bands_df, "Similar_Band_Score", crowd), band_id, countries)
    /\ pc' = "normalize"
    /\ UNCHANGED <<store, band_id, weights, merged_df, similar_bands_df, denom,
                   recommended_bands, calls, returned>>

RECURSIVE NormalizeCols(_, _)
NormalizeCols(frame, cs) ==
    IF cs = {} THEN frame
    ELSE LET c == CHOOSE x \in cs : TRUE
         IN NormalizeCols(SetCol(frame, c, normalize_score(Col(frame, c))), cs \ {c})

\* lines 143-146: reading a column calculate_similarity did not add raises
\* KeyError
Normalize ==
    /\ pc = "normalize"
    /\ IF HasCols(overlap_bands_df, SignalCols)
       THEN /\ denom' = [c \in SignalCols |-> Spread(Col(overlap_bands_df, c))]
            /\ overlap_bands_df' = NormalizeCols(overlap_bands_df, SignalCols)
            /\ pc' = "total"
       ELSE /\ pc' = "KeyError"
            /\ UNCHANGED <<overlap_bands_df, denom>>
    /\ UNCHANGED <<store, band_id, weights, merged_df, similar_bands_df,
                   recommended_bands, calls, returned>>

\* lines 148-160
Rank ==
    /\ pc = "total"
    /\ LET totals == [i \in 1..Len(overlap_bands_df.rows) |->
                         TotalScore(overlap_bands_df.rows[i], weights, denom)]
           scored == DropCols(SetCol(overlap_bands_df, "Total_Score", totals), SignalCols)
       IN /\ overlap_bands_df' = scored
          /\ recommended_bands' = top_recommendations(scored, band_id)
    /\ returned' = Append(returned, recommended_bands')
    /\ pc' = "done"
    /\ UNCHANGED <<store, band_id, weights, merged_df, similar_bands_df, denom, calls>>

Next ==
    \/ Call
    \/ SimilarBands
    \/ Filter
    \/ SimilarityGenre
    \/ SimilarityThemes
    \/ Signals
    \/ Normalize
    \/ Rank

Spec == Init /\ [][Next]_vars

(* --------------------- the aggregator on its own ----------------------- *)
\* Every edge table of up to MaxEdges rows, against a small band table.
InitAgg ==
    /\ bands_df = LoadBands(SmallBands, 1)
    /\ lyrics_df = LoadLyrics(SmallBands, 1)
    /\ similar_artists_df \in EdgeTablesUpTo(MaxEdges)
    /\ countries = 1
    /\ Idle

NextAgg == Call \/ SimilarBands

SpecAgg == InitAgg /\ [][NextAgg]_vars

(* ------------------------ two successive calls ------------------------- *)
InitTwice ==
    /\ \E n \in 1..SmallBands, g \in GenreProfiles, t \in ThemeProfiles :
          /\ bands_df = LoadBands(n, g)
          /\ lyrics_df = LoadLyrics(n, t)
    /\ similar_artists_df \in PipelineEdgeTables
    /\ countries \in GeoProfiles
    /\ Idle

\* get_recommendations is called again with the same arguments, against the
\* globals as the previous call left them
CallAgain ==
    /\ pc = "done"
    /\ Len(returned) < MaxCalls
    /\ Preproc(band_id, weights)

NextTwice == Next \/ CallAgain

SpecTwice == InitTwice /\ [][NextTwice]_vars

(* ============================== claims ================================= *)
Started == pc \notin {"idle"}
AfterSimilar == pc \notin {"idle", "similar"}
AfterFilter == pc \notin {"idle", "similar", "filter"}
Candidates == overlap_bands_df.rows
CandidateIds == [i \in 1..Len(Candidates) |-> Candidates[i]["Band ID"]]
MergedIds == [i \in 1..Len(merged_df) |-> merged_df[i].Band_ID]
Range(s) == {s[i] : i \in 1..Len(s)}
PosIn(s, x) == CHOOSE i \in 1..Len(s) : s[i] = x
RecommendedIds == [i \in 1..Len(recommended_bands) |-> recommended_bands[i]["Band ID"]]
NonTargetIds == SelectSeq(CandidateIds, LAMBDA x : x # band_id)
TotalOf(id) == Candidates[PosIn(CandidateIds, id)]["Total_Score"]
Gt(a, b) == IsNumber(a) /\ IsNumber(b) /\ a > b

\* C1: no row of the table get_recommendations returns has Band ID equal to
\* the target band id.
C1_TargetNeverRecommended ==
    pc = "done" => \A i \in 1..Len(recommended_bands) : recommended_bands[i]["Band ID"] # band_id

\* The target was a candidate, the call returned a non-empty table.
C1_Witness ==
    /\ pc = "done"
    /\ band_id \in Range(CandidateIds)
    /\ Len(recommended_bands) > 1

\* C2: for a non-empty candidate set the number of rows returned is
\* min(10, |candidates| - 1), also when signals are constant over the set.
C2_OutputLength ==
    (pc = "done" /\ Candidates # <<>>) =>
        Len(recommended_bands) = Min2(TopN, Len(Candidates) - 1)

\* More than ten non-target candidates and a constant signal (all totals NaN):
\* ten rows are returned.
C2_Witness ==
    /\ pc = "done"
    /\ Len(Candidates) > TopN + 1
    /\ \E c \in SignalCols : denom[c] = 0
    /\ Len(recommended_bands) = TopN

\* C3: the returned table is the first 10 rows of the non-target candidates in
\* stable descending Total_Score order: every returned row is a non-target
\* candidate, returned once; no returned row has a larger total than a row
\* returned before it; no omitted non-target candidate has a larger total than
\* a returned one; rows of equal total keep their candidate order, among the
\* returned rows and between a returned and an omitted row.
C3_StableTopTen ==
    pc = "done" =>
        /\ Len(recommended_bands) = Min2(TopN, Len(NonTargetIds))
        /\ \A i \in 1..Len(recommended_bands) :
              /\ RecommendedIds[i] \in Range(NonTargetIds)
              /\ recommended_bands[i] = Candidates[PosIn(CandidateIds, RecommendedIds[i])]
        /\ \A i, j \in 1..Len(recommended_bands) :
              i < j =>
                 /\ RecommendedIds[i] # RecommendedIds[j]
                 /\ ~Gt(TotalOf(RecommendedIds[j]), TotalOf(RecommendedIds[i]))
                 /\ TotalOf(RecommendedIds[i]) = TotalOf(RecommendedIds[j]) =>
                        PosIn(CandidateIds, RecommendedIds[i]) < PosIn(CandidateIds, RecommendedIds[j])
        /\ \A x \in Range(NonTargetIds) \ Range(RecommendedIds) :
              \A i \in 1..Len(recommended_bands) :
                 /\ ~Gt(TotalOf(x), TotalOf(RecommendedIds[i]))
                 /\ TotalOf(x) = TotalOf(RecommendedIds[i]) =>
                        PosIn(CandidateIds, RecommendedIds[i]) < PosIn(CandidateIds, x)

\* Defined totals, a candidate left out, a tie among the returned rows, and a
\* returned order that is not the candidate order.
C3_Witness ==
    /\ pc = "done"
    /\ Len(NonTargetIds) > TopN
    /\ \A i \in 1..Len(Candidates) : IsNumber(Candidates[i]["Total_Score"])
    /\ \E i, j \in 1..Len(recommended_bands) :
          i < j /\ TotalOf(RecommendedIds[i]) = TotalOf(RecommendedIds[j])
    /\ \E i, j \in 1..Len(recommended_bands) :
          i < j /\ PosIn(CandidateIds, RecommendedIds[i]) > PosIn(CandidateIds, RecommendedIds[j])

EdgesBetween(t, x) ==
    {i \in 1..Len(similar_artists_df) :
        \/ similar_artists_df[i].Band_ID = t /\ similar_artists_df[i].Similar_Artist_ID = x
        \/ similar_artists_df[i].Band_ID = x /\ similar_artists_df[i].Similar_Artist_ID = t}
EntriesFor(x) ==
    {i \in 1..Len(similar_bands_df) : similar_bands_df[i].Similar_Artist_ID = x}

\* C4: get_complete_similar_bands returns exactly one entry for each band X
\* sharing an edge with the target in either direction, scored with the
\* maximum of the scores of all edges between the target and X (and no entry
\* for a band other than the target that shares no edge with it).
C4_MaxPerCounterpart ==
    AfterSimilar =>
        \A x \in EdgeIds \ {band_id} :
            IF EdgesBetween(band_id, x) = {} THEN EntriesFor(x) = {}
            ELSE /\ Cardinality(EntriesFor(x)) = 1
                 /\ \A e \in EntriesFor(x) :
                       /\ \A i \in EdgesBetween(band_id, x) :
                             similar_bands_df[e].Score >= similar_artists_df[i].Score
                       /\ \E i \in EdgesBetween(band_id, x) :
                             similar_bands_df[e].Score = similar_artists_df[i].Score

\* Edges (target, X, 1) and (X, target, 2): the entry of X scores 2.
C4_Witness ==
    /\ AfterSimilar
    /\ \E x \in EdgeIds \ {band_id} :
          /\ \E i \in 1..Len(similar_artists_df) : similar_artists_df[i] = Edge(band_id, x, 1)
          /\ \E i \in 1..Len(similar_artists_df) : similar_artists_df[i] = Edge(x, band_id, 2)
          /\ \E e \in EntriesFor(x) : similar_bands_df[e].Score = 2

TagsOf(id) == merged_df[PosIn(MergedIds, id)].Processed_Genre
SharesTag(x, y) == TagsOf(x) \cap TagsOf(y) # {}
FilterIsOverlapSubsequence ==
    /\ CandidateIds = SelectSeq(MergedIds, LAMBDA x : SharesTag(x, band_id))
    /\ \A i \in 1..Len(Candidates) :
          /\ Candidates[i]["Genre"] = merged_df[PosIn(MergedIds, CandidateIds[i])].Genre
          /\ Candidates[i]["Themes:"] = merged_df[PosIn(MergedIds, CandidateIds[i])].Themes

\* C5 (as amended): when the target id exists in the band table,
\* filter_by_genre_overlap returns exactly the rows, in input order, of the
\* bands whose processed genre tags intersect the target's; the target itself
\* is in the result whenever its own tag set is non-empty.
C5_FilterByOverlap ==
    (pc = "genre" /\ band_id \in Range(MergedIds)) =>
        /\ FilterIsOverlapSubsequence
        /\ TagsOf(band_id) # {} => band_id \in Range(CandidateIds)

\* C5 as claimed: the target itself is always in the result.
C5_Claimed ==
    (pc = "genre" /\ band_id \in Range(MergedIds)) =>
        /\ FilterIsOverlapSubsequence
        /\ band_id \in Range(CandidateIds)

\* Target {death metal}: a band tagged {death metal, doom} is kept, a band
\* tagged {pop} is not, and the kept rows are not in id order.
C5_Witness ==
    /\ pc = "genre"
    /\ band_id \in Range(CandidateIds)
    /\ TagsOf(band_id) = {"death metal"}
    /\ \E x \in Range(CandidateIds) : TagsOf(x) = {"death metal", "doom"}
    /\ \E x \in Range(MergedIds) \ Range(CandidateIds) : TagsOf(x) = {"pop"}
    /\ \E i, j \in 1..Len(CandidateIds) : i < j /\ CandidateIds[i] > CandidateIds[j]

\* C6: a signal that is constant over the candidate set is normalized to 0 on
\* every row, and every Total_Score is a defined number.
C6_DegenerateSignalIsZero ==
    /\ pc = "total" =>
          \A c \in SignalCols : denom[c] = 0 =>
              \A i \in 1..Len(Candidates) : Candidates[i][c] = 0
    /\ pc = "done" =>
          \A i \in 1..Len(Candidates) : IsNumber(Candidates[i]["Total_Score"])

\* C7: for a band id missing from the merged table the filter returns an empty
\* candidate set, no later step raises, and the call returns an empty table.
C7_UnknownBandReturnsEmpty ==
    (AfterFilter /\ band_id \notin Range(MergedIds)) =>
        /\ Candidates = <<>>
        /\ pc # "KeyError"
        /\ pc = "done" => recommended_bands = <<>>

\* C8: a second call with the same band id and weights, against the tables as
\* the first call left them, returns the same rows in the same order.
C8_SecondCallSameResult ==
    Len(returned) = MaxCalls => returned[1] = returned[MaxCalls]

\* After the first call lyrics_df and bands_df are fixed points of
\* preproc_data, so every later call merges the same table.
PreprocIsIdempotent ==
    Started =>
        /\ PreprocLyrics(lyrics_df) = lyrics_df
        /\ process_genres(bands_df) = bands_df
        /\ MergeInner(bands_df, lyrics_df) = merged_df

\* C9: when the candidate set is empty, calculate_similarity is never invoked.
C9_EmptySetSkipsSimilarity ==
    (AfterFilter /\ Candidates = <<>>) => calls = 0

\* C10: without self-edges no key of the table get_complete_similar_bands
\* returns is the target id, so the target's own candidate row is joined with
\* the fallback crowd score 0.
C10_KeysAreCounterparts ==
    /\ AfterSimilar =>
          \A i \in 1..Len(similar_bands_df) : similar_bands_df[i].Similar_Artist_ID # band_id
    /\ pc = "normalize" =>
          \A i \in 1..Len(Candidates) :
              Candidates[i]["Band ID"] = band_id => Candidates[i]["Similar_Band_Score"] = 0

====
